---------------------------- MODULE Spec2Model ----------------------------
(***************************************************************************)
(* Model of the stock-analysis dashboard of src/main.py: the indicator     *)
(* functions (rolling means, calc_rsi, calc_macd, calc_bollinger), the     *)
(* rule-based classifier get_direction_analysis, and the page handlers     *)
(* load_data_and_display / on_analyze.                                     *)
(*                                                                         *)
(* Floating-point values are modelled as extended rationals <<n, d>> in    *)
(* lowest terms with d >= 0: d > 0 is the finite number n/d, <<1, 0>> and  *)
(* <<-1, 0>> are +inf and -inf, <<0, 0>> is NaN (pandas' "undefined").     *)
(* Rounding error of binary floating point is not modelled.                *)
(***************************************************************************)
EXTENDS Integers, Sequences, FiniteSets, TLC

VARIABLES
    price, ma20, ma60, rsi, result,          \* one call of get_direction_analysis
    series, out,                             \* one call of an indicator function
    page_title, main_column, snack_bar,      \* the page (ft.Page) and its main column
    shown, loaded,                           \* what page.update() last sent; whether main() has returned
    last_load, last_call                     \* the last load's retrieval and its call of the classifier

vars == <<price, ma20, ma60, rsi, result, series, out,
          page_title, main_column, snack_bar, shown, loaded, last_load, last_call>>

classifyVars == <<price, ma20, ma60, rsi, result>>
indicatorVars == <<series, out>>
pageVars == <<page_title, main_column, snack_bar, shown, loaded, last_load, last_call>>

(***************************************************************************)
(* Bounds of the model.                                                    *)
(***************************************************************************)
MaxPrice == 4          \* classifier inputs and indicator closes range over 1..MaxPrice
MaxLen == 4            \* indicator series have 0..MaxLen closes
MaxDefaultMacdLen == 2 \* calc_macd with its default spans is applied to series up to this length
MaxBase == 1            \* retrieved frames start at close 1 or at a close in 100..100+MaxBase-1

(***************************************************************************)
(* Program constants.                                                      *)
(***************************************************************************)
RSI_PERIOD == 14
MA_SHORT == 20
MA_LONG == 60
MIN_BARS == 60
MACD_FAST == 12
MACD_SLOW == 26
MACD_SIGNAL == 9
BOLL_PERIOD == 20
BOLL_STD_DEV == 2
OVERBOUGHT == 70
OVERSOLD == 30
DEFAULT_PERIOD_DAYS == 365
SLIDER_MIN == 90

(***************************************************************************)
(* Floating-point values.                                                  *)
(***************************************************************************)
Abs(n) == IF n < 0 THEN -n ELSE n

Sign(n) == IF n > 0 THEN 1 ELSE IF n < 0 THEN -1 ELSE 0

RECURSIVE GCD(_, _)
GCD(a, b) == IF b = 0 THEN a ELSE GCD(b, a % b)

\* The value n/d in lowest terms; n/0 is an infinity of n's sign, 0/0 is NaN.
Frac(n, d) ==
    IF d = 0 THEN <<Sign(n), 0>>
    ELSE LET g == GCD(Abs(n), Abs(d))
             s == IF d < 0 THEN -1 ELSE 1
         IN  <<(s * n) \div g, (s * d) \div g>>

NaN == <<0, 0>>
PosInf == <<1, 0>>
NegInf == <<-1, 0>>
Num(n) == <<n, 1>>

\* pd.isna on a float
IsNaN(x) == x = NaN
IsFinite(x) == x[2] > 0

FNeg(a) == <<-a[1], a[2]>>

\* IEEE addition: NaN propagates, inf + -inf is NaN.
FAdd(a, b) ==
    IF IsNaN(a) \/ IsNaN(b) THEN NaN
    ELSE IF ~IsFinite(a) /\ ~IsFinite(b) THEN (IF a = b THEN a ELSE NaN)
    ELSE IF ~IsFinite(a) THEN a
    ELSE IF ~IsFinite(b) THEN b
    ELSE LET g == GCD(a[2], b[2])
             l == (a[2] \div g) * b[2]
         IN  Frac(a[1] * (l \div a[2]) + b[1] * (l \div b[2]), l)

FSub(a, b) == FAdd(a, FNeg(b))

\* IEEE multiplication: NaN propagates, 0 * inf is NaN.
FMul(a, b) ==
    IF IsNaN(a) \/ IsNaN(b) THEN NaN
    ELSE IF ~IsFinite(a) \/ ~IsFinite(b) THEN <<Sign(a[1]) * Sign(b[1]), 0>>
    ELSE LET g1 == GCD(Abs(a[1]), b[2])
             g2 == GCD(Abs(b[1]), a[2])
         IN  IF a[1] = 0 \/ b[1] = 0 THEN Num(0)
             ELSE Frac((a[1] \div g1) * (b[1] \div g2), (a[2] \div g2) * (b[2] \div g1))

\* IEEE division: x/0 is an infinity of x's sign, 0/0 and inf/inf are NaN,
\* finite/inf is 0.
FDiv(a, b) ==
    IF IsNaN(a) \/ IsNaN(b) THEN NaN
    ELSE IF ~IsFinite(b) THEN (IF IsFinite(a) THEN Num(0) ELSE NaN)
    ELSE IF b[1] = 0 THEN <<Sign(a[1]), 0>>
    ELSE FMul(a, <<Sign(b[1]) * b[2], Abs(b[1])>>)

\* Comparisons: every comparison with NaN is false.
FGt(a, b) ==
    /\ ~IsNaN(a)
    /\ ~IsNaN(b)
    /\ IF IsFinite(a) /\ IsFinite(b) THEN a[1] * b[2] > b[1] * a[2]
       ELSE (a = PosInf /\ b # PosInf) \/ (b = NegInf /\ a # NegInf)

FLt(a, b) == FGt(b, a)

FGe(a, b) == ~IsNaN(a) /\ ~IsNaN(b) /\ ~FGt(b, a)

FLe(a, b) == FGe(b, a)

RECURSIVE Pow(_, _)
Pow(b, e) == IF e = 0 THEN 1 ELSE b * Pow(b, e - 1)

\* format(x, ".<digits>f") as the sequence of what the text shows: <<"nan">>,
\* <<"inf">> or <<"-inf">>, else <<m>> with m the integer nearest to
\* x * 10^digits, ties to even (the text is m with the point set digits
\* places from the right).
FormatF(x, digits) ==
    IF IsNaN(x) THEN <<"nan">>
    ELSE IF x = PosInf THEN <<"inf">>
    ELSE IF x = NegInf THEN <<"-inf">>
    ELSE LET y == FMul(x, Num(Pow(10, digits)))
             q == y[1] \div y[2]
             r == y[1] % y[2]
         IN  IF 2 * r < y[2] THEN <<q>>
             ELSE IF 2 * r > y[2] THEN <<q + 1>>
             ELSE IF q % 2 = 0 THEN <<q>> ELSE <<q + 1>>

(***************************************************************************)
(* get_direction_analysis.  The Korean literals of the source are named:   *)
(*   HOLD            "관망 필요"                                           *)
(*   UPTREND         "상승 추세"                                           *)
(*   DOWNTREND       "하락 추세"                                           *)
(*   HOLD_OVERBOUGHT "관망 필요 (과매수)"                                  *)
(*   HOLD_OVERSOLD   "관망 필요 (과매도)"                                  *)
(*   INSUFFICIENT    "데이터 부족으로 분석 제한"                           *)
(*   TREND_UP        "주가가 20일·60일 이평선 위 (상승 추세)"              *)
(*   TREND_DOWN      "주가가 20일·60일 이평선 아래 (하락 추세)"            *)
(*   TREND_AMBIGUOUS "이평선 근처 구간 (추세 모호)"                        *)
(*   RSI_OVERBOUGHT  "RSI {rsi:.0f} - 과매수 구간 (조정 가능성)"           *)
(*   RSI_OVERSOLD    "RSI {rsi:.0f} - 과매도 구간 (반등 가능성)"           *)
(*   RSI_NEUTRAL     "RSI {rsi:.0f} - 중립 구간"                           *)
(* A details entry is <<text>> or, for the RSI entries, <<text, number>>.  *)
(***************************************************************************)
HOLD == "hold_needed"
UPTREND == "uptrend"
DOWNTREND == "downtrend"
HOLD_OVERBOUGHT == "hold_needed_overbought"
HOLD_OVERSOLD == "hold_needed_oversold"
INSUFFICIENT == "insufficient_data"
TREND_UP == "above_ma20_ma60"
TREND_DOWN == "below_ma20_ma60"
TREND_AMBIGUOUS == "near_averages"
RSI_OVERBOUGHT == "rsi_overbought"
RSI_OVERSOLD == "rsi_oversold"
RSI_NEUTRAL == "rsi_neutral"

\* Mutant: the trend comparisons made inclusive.
TrendDetailInclusive(p, m20, m60) ==
    IF FGe(p, m20) /\ FGe(p, m60) THEN <<TREND_UP>>
    ELSE IF FLe(p, m20) /\ FLe(p, m60) THEN <<TREND_DOWN>>
    ELSE <<TREND_AMBIGUOUS>>

\* lines 76-81
TrendDetail(p, m20, m60) ==
    IF FGt(p, m20) /\ FGt(p, m60) THEN <<TREND_UP>>
    ELSE IF FLt(p, m20) /\ FLt(p, m60) THEN <<TREND_DOWN>>
    ELSE <<TREND_AMBIGUOUS>>

\* lines 83-88
RsiDetail(r) ==
    IF FGe(r, Num(OVERBOUGHT)) THEN <<RSI_OVERBOUGHT>> \o FormatF(r, 0)
    ELSE IF FLe(r, Num(OVERSOLD)) THEN <<RSI_OVERSOLD>> \o FormatF(r, 0)
    ELSE <<RSI_NEUTRAL>> \o FormatF(r, 0)

\* Mutant: the RSI thresholds made exclusive.
OpinionBranchExclusive(p, m20, r) ==
    LET above_ma == FGt(p, m20)
        overbought == FGt(r, Num(OVERBOUGHT))
        oversold == FLt(r, Num(OVERSOLD))
    IN  IF above_ma /\ ~overbought THEN "a"
        ELSE IF ~above_ma /\ ~oversold THEN "b"
        ELSE IF overbought THEN "c"
        ELSE IF oversold THEN "d"
        ELSE "e"

\* Mutant: branch c taken only below the average, by symmetry with branch b.
OpinionBranchGap(p, m20, r) ==
    LET above_ma == FGt(p, m20)
        overbought == FGe(r, Num(OVERBOUGHT))
        oversold == FLe(r, Num(OVERSOLD))
    IN  IF above_ma /\ ~overbought THEN "a"
        ELSE IF ~above_ma /\ ~oversold THEN "b"
        ELSE IF ~above_ma /\ overbought THEN "c"
        ELSE IF oversold THEN "d"
        ELSE "e"

\* lines 90-100: which branch of the if/elif chain assigns the opinion;
\* "e" is falling through all four.
OpinionBranch(p, m20, r) ==
    LET above_ma == FGt(p, m20)
        overbought == FGe(r, Num(OVERBOUGHT))
        oversold == FLe(r, Num(OVERSOLD))
    IN  IF above_ma /\ ~overbought THEN "a"
        ELSE IF ~above_ma /\ ~oversold THEN "b"
        ELSE IF overbought THEN "c"
        ELSE IF oversold THEN "d"
        ELSE "e"

BranchOpinion(b) ==
    CASE b = "a" -> UPTREND
      [] b = "b" -> DOWNTREND
      [] b = "c" -> HOLD_OVERBOUGHT
      [] b = "d" -> HOLD_OVERSOLD
      [] OTHER -> HOLD

\* Mutant: the short-circuit taken only when both ma20 and rsi are missing.
get_direction_analysis_both(p, m20, m60, r) ==
    IF IsNaN(m20) /\ IsNaN(r)
    THEN [opinion |-> HOLD, details |-> <<<<INSUFFICIENT>>>>]
    ELSE [opinion |-> BranchOpinion(OpinionBranch(p, m20, r)),
          details |-> <<TrendDetail(p, m20, m60), RsiDetail(r)>>]

\* Mutant: the opinion decided against ma60 instead of ma20.
get_direction_analysis_ma60(p, m20, m60, r) ==
    IF IsNaN(m20) \/ IsNaN(r)
    THEN [opinion |-> HOLD, details |-> <<<<INSUFFICIENT>>>>]
    ELSE [opinion |-> BranchOpinion(OpinionBranch(p, m60, r)),
          details |-> <<TrendDetail(p, m20, m60), RsiDetail(r)>>]

\* lines 70-101
get_direction_analysis(p, m20, m60, r) ==
    IF IsNaN(m20) \/ IsNaN(r)
    THEN [opinion |-> HOLD, details |-> <<<<INSUFFICIENT>>>>]
    ELSE [opinion |-> BranchOpinion(OpinionBranch(p, m20, r)),
          details |-> <<TrendDetail(p, m20, m60), RsiDetail(r)>>]

NoResult == [opinion |-> "not_called", details |-> <<>>]

\* Inputs of the classifier: undefined, or a price / average / RSI value.
PriceInputs == {NaN} \cup {Num(n) : n \in 1..MaxPrice}
AverageInputs == {NaN} \cup {Frac(n, 2) : n \in 2..(2 * MaxPrice)}
RsiInputs == {NaN} \cup {Frac(n, 2) : n \in {0, 59, 60, 61, 100, 139, 140, 141, 200}}

(***************************************************************************)
(* Indicator functions.  A series is a sequence of closes (integers, in    *)
(* the price unit); position k of the source (0-based) is index k+1 here.  *)
(* An output column is a sequence of floating-point values.                *)
(***************************************************************************)
RECURSIVE FnSum(_, _, _)
FnSum(f, lo, hi) == IF lo > hi THEN 0 ELSE f[lo] + FnSum(f, lo + 1, hi)

\* Mutant: a window one observation too wide.
WindowStartWide(i, w) == IF i - w < 1 THEN 1 ELSE i - w

\* The first index of the rolling window of width w that ends at index i.
WindowStart(i, w) == IF i - w + 1 < 1 THEN 1 ELSE i - w + 1

\* series.rolling(window=w).mean(): min_periods defaults to the window, so
\* a window holding fewer than w observations gives NaN.
rolling_mean(s, w) ==
    [i \in 1..Len(s) |->
        LET lo == WindowStart(i, w)
            nobs == i - lo + 1
        IN  IF nobs < w THEN NaN ELSE Frac(FnSum(s, lo, i), nobs)]

\* The square of series.rolling(window=w).std(): the sample variance
\* (ddof = 1) of the window, NaN for a short window and for w = 1 (0/0).
rolling_var(s, w) ==
    [i \in 1..Len(s) |->
        LET lo == WindowStart(i, w)
            n == i - lo + 1
            sq == [j \in lo..i |-> s[j] * s[j]]
        IN  IF n < w THEN NaN
            ELSE Frac(n * FnSum(sq, lo, i) - FnSum(s, lo, i) * FnSum(s, lo, i), n * (n - 1))]

\* The value ma + k * std, with std given by its square: NaN when either
\* operand is NaN, else <<ma numerator, ma denominator, k, var numerator,
\* var denominator>>, standing for ma + k * sqrt(var).
Band(ma, k, var) ==
    IF IsNaN(ma) \/ IsNaN(var) THEN NaN
    ELSE <<ma[1], ma[2], k, var[1], var[2]>>

calc_bollinger(s, period, std_dev) ==
    LET ma == rolling_mean(s, period)
        var == rolling_var(s, period)
    IN  <<ma,
          [i \in 1..Len(s) |-> Band(ma[i], std_dev, var[i])],
          [i \in 1..Len(s) |-> Band(ma[i], -std_dev, var[i])]>>

\* Mutant: the average seeded with 0 instead of the first value.
RECURSIVE ewm_span_zero_seed(_, _)
ewm_span_zero_seed(xs, span) ==
    IF Len(xs) = 0 THEN <<>>
    ELSE LET prev == ewm_span_zero_seed(SubSeq(xs, 1, Len(xs) - 1), span)
             a == Frac(2, span + 1)
             last == IF Len(prev) = 0 THEN Num(0) ELSE prev[Len(prev)]
         IN  Append(prev, FAdd(FMul(FSub(Num(1), a), last), FMul(a, xs[Len(xs)])))

\* xs.ewm(span=span, adjust=False).mean(): y[1] = x[1],
\* y[t] = (1 - a) * y[t-1] + a * x[t] with a = 2 / (span + 1).
RECURSIVE ewm_span(_, _)
ewm_span(xs, span) ==
    IF Len(xs) = 0 THEN <<>>
    ELSE IF Len(xs) = 1 THEN <<xs[1]>>
    ELSE LET prev == ewm_span(SubSeq(xs, 1, Len(xs) - 1), span)
             a == Frac(2, span + 1)
         IN  Append(prev, FAdd(FMul(FSub(Num(1), a), prev[Len(prev)]),
                               FMul(a, xs[Len(xs)])))

calc_macd(s, fast, slow, signal) ==
    LET xs == [i \in 1..Len(s) |-> Num(s[i])]
        ema_fast == ewm_span(xs, fast)
        ema_slow == ewm_span(xs, slow)
        macd_line == [i \in 1..Len(s) |-> FSub(ema_fast[i], ema_slow[i])]
        signal_line == ewm_span(macd_line, signal)
        histogram == [i \in 1..Len(s) |-> FSub(macd_line[i], signal_line[i])]
    IN  <<macd_line, signal_line, histogram>>

\* series.diff(): NaN at the first position.
Delta(s, i) == IF i = 1 THEN NaN ELSE Num(s[i] - s[i - 1])

\* delta.where(delta > 0, 0.0): NaN > 0 is false, so the first gain is 0.
Gain(s, i) == IF FGt(Delta(s, i), Num(0)) THEN Delta(s, i)[1] ELSE 0

\* (-delta).where(delta < 0, 0.0)
Loss(s, i) == IF FLt(Delta(s, i), Num(0)) THEN -Delta(s, i)[1] ELSE 0

\* gain.ewm(alpha=1/period, min_periods=period).mean() and the same of loss
\* at index t >= period (adjust=True): each is the weighted mean with
\* weights ((period-1)/period)^(t-i), i = 1..t, so
\*     avg_gain[t] = c * G  and  avg_loss[t] = c * L
\* for one c > 0, G and L the sums of gains and of losses under any positive
\* multiple of those weights.  AvgPair gives such a pair <<G, L>>, which
\* decides avg_gain / avg_loss.  Integers stay small: with no loss (gain) up
\* to t the pair is <<0 or 1, 0>> (<<0, 0 or 1>>), otherwise the weights are
\* taken relative to the first and last index at which the close moved
\* (gains and losses are 0 elsewhere).  period >= 2.
AvgPair(s, t, period) ==
    LET moves == {i \in 2..t : s[i] # s[i - 1]}
        ups == {i \in moves : Gain(s, i) > 0}
        downs == {i \in moves : Loss(s, i) > 0}
    IN  IF downs = {} THEN <<IF ups = {} THEN 0 ELSE 1, 0>>
        ELSE IF ups = {} THEN <<0, 1>>
        ELSE LET lo == CHOOSE i \in moves : \A j \in moves : i <= j
                 hi == CHOOSE i \in moves : \A j \in moves : i >= j
                 wt == [i \in lo..hi |-> Pow(period - 1, hi - i) * Pow(period, i - lo)]
                 G == FnSum([i \in lo..hi |-> wt[i] * Gain(s, i)], lo, hi)
                 L == FnSum([i \in lo..hi |-> wt[i] * Loss(s, i)], lo, hi)
             IN  <<G \div GCD(G, L), L \div GCD(G, L)>>

\* Mutant: a zero average loss leaves rs undefined instead of infinite.
calc_rsi_undefined_ratio(s, period) ==
    [t \in 1..Len(s) |->
        LET avg == AvgPair(s, t, period)
            rs == IF t < period \/ avg[2] = 0 THEN NaN
                  ELSE FDiv(Num(avg[1]), Num(avg[2]))
        IN  FSub(Num(100), FDiv(Num(100), FAdd(Num(1), rs)))]

\* lines 47-50: rs = avg_gain / avg_loss, NaN before min_periods
\* observations; 100 - 100 / (1 + rs).
calc_rsi(s, period) ==
    [t \in 1..Len(s) |->
        LET avg == AvgPair(s, t, period)
            rs == IF t < period THEN NaN ELSE FDiv(Num(avg[1]), Num(avg[2]))
        IN  FSub(Num(100), FDiv(Num(100), FAdd(Num(1), rs)))]

(***************************************************************************)
(* Specification of the indicator functions: a series is drawn, and each   *)
(* step applies one indicator function to it and keeps what it returned.   *)
(***************************************************************************)
SeriesInputs == UNION {[1..n -> 1..MaxPrice] : n \in 0..MaxLen}
WindowInputs == {1, 2, 3, MA_SHORT, MA_LONG}
RsiPeriodInputs == {2, 3, RSI_PERIOD}
BollingerInputs == {1, 2, 3, BOLL_PERIOD}
SmallSpans == <<3, 7, 3>>
DefaultSpans == <<MACD_FAST, MACD_SLOW, MACD_SIGNAL>>

NoOut == [fn |-> "none", param |-> <<>>, values |-> <<>>]

NoLoad == [df |-> <<>>, fails |-> "not_run"]

\* The page, idle (the indicator and classifier specifications leave it so).
PageIdle ==
    /\ page_title = "none"
    /\ main_column = <<>>
    /\ snack_bar = "none"
    /\ shown = <<>>
    /\ loaded = FALSE
    /\ last_load = NoLoad
    /\ last_call = <<>>

ClassifyIdle ==
    /\ price = NaN
    /\ ma20 = NaN
    /\ ma60 = NaN
    /\ rsi = NaN
    /\ result = NoResult

IndicatorsIdle ==
    /\ series = <<>>
    /\ out = NoOut

InitIndicators ==
    /\ series \in SeriesInputs
    /\ out = NoOut
    /\ ClassifyIdle
    /\ PageIdle

MovingAverage ==
    \E w \in WindowInputs :
        /\ out = NoOut
        /\ out' = [fn |-> "rolling_mean", param |-> <<w>>,
                   values |-> <<rolling_mean(series, w)>>]
        /\ UNCHANGED <<series, classifyVars, pageVars>>

CalcRsi ==
    \E period \in RsiPeriodInputs :
        /\ out = NoOut
        /\ out' = [fn |-> "calc_rsi", param |-> <<period>>,
                   values |-> <<calc_rsi(series, period)>>]
        /\ UNCHANGED <<series, classifyVars, pageVars>>

CalcMacd ==
    \E spans \in {SmallSpans, DefaultSpans} :
        /\ out = NoOut
        /\ spans = DefaultSpans => Len(series) <= MaxDefaultMacdLen
        /\ out' = [fn |-> "calc_macd", param |-> spans,
                   values |-> calc_macd(series, spans[1], spans[2], spans[3])]
        /\ UNCHANGED <<series, classifyVars, pageVars>>

CalcBollinger ==
    \E period \in BollingerInputs :
        /\ out = NoOut
        /\ out' = [fn |-> "calc_bollinger", param |-> <<period>>,
                   values |-> calc_bollinger(series, period, BOLL_STD_DEV)]
        /\ UNCHANGED <<series, classifyVars, pageVars>>

NextIndicators == MovingAverage \/ CalcRsi \/ CalcMacd \/ CalcBollinger

SpecIndicators == InitIndicators /\ [][NextIndicators]_vars

(***************************************************************************)
(* Specification of the classifier: the four arguments are drawn, and the  *)
(* step calls get_direction_analysis on them.                              *)
(***************************************************************************)
InitClassify ==
    /\ price \in PriceInputs
    /\ ma20 \in AverageInputs
    /\ ma60 \in AverageInputs
    /\ rsi \in RsiInputs
    /\ result = NoResult
    /\ IndicatorsIdle
    /\ PageIdle

Classify ==
    /\ result = NoResult
    /\ result' = get_direction_analysis(price, ma20, ma60, rsi)
    /\ UNCHANGED <<price, ma20, ma60, rsi, indicatorVars, pageVars>>

NextClassify == Classify

SpecClassify == InitClassify /\ [][NextClassify]_vars

(***************************************************************************)
(* The page.  A control of main_column is a record with its kind and the   *)
(* texts it shows; the three charts are rendered from the frame's columns  *)
(* and hold no state of their own.  The Korean literals are named:         *)
(*   DATA_SHORT  "데이터가 부족합니다. 티커를 확인 후 다시 시도하세요."    *)
(*   LOAD_ERROR  "데이터 로드 오류: {e}"                                   *)
(***************************************************************************)
DATA_SHORT == "data_short"
LOAD_ERROR == "load_error"

\* lines 353-361: the initial control of main_column
Placeholder == [kind |-> "placeholder"]

\* lines 304-313: the progress ring and the "loading" text
Loading(t) == [kind |-> "loading", ticker |-> t]

\* f"${x:,.2f}" if not pd.isna(x) else "-"
Money(x) == IF IsNaN(x) THEN <<"-">> ELSE <<"$">> \o FormatF(x, 2)

\* lines 198-203: the opinion's colour, by the substring it contains
OpinionColor(opinion) ==
    IF opinion = UPTREND THEN "GREEN"
    ELSE IF opinion = DOWNTREND THEN "RED"
    ELSE "ORANGE"

\* line 205
RsiColor(r) ==
    IF FLe(r, Num(OVERSOLD)) THEN "GREEN"
    ELSE IF FGe(r, Num(OVERBOUGHT)) THEN "RED"
    ELSE "AMBER"

\* lines 190-195: the last row of the frame, as passed to the classifier
LastRow(df) ==
    [current_price |-> Num(df[Len(df)]),
     ma20_val |-> rolling_mean(df, MA_SHORT)[Len(df)],
     ma60_val |-> rolling_mean(df, MA_LONG)[Len(df)],
     rsi_val |-> calc_rsi(df, RSI_PERIOD)[Len(df)]]

\* lines 209-291: the content column
Content(t, p, info, row, analysis) ==
    [kind |-> "content",
     company_name |-> IF info.longName # "" THEN info.longName
                      ELSE IF info.shortName # "" THEN info.shortName
                      ELSE t,
     ticker |-> t,
     days |-> p,
     price_text |-> Money(row.current_price),
     ma20_str |-> Money(row.ma20_val),
     ma60_str |-> Money(row.ma60_val),
     rsi_text |-> FormatF(row.rsi_val, 1),
     rsi_color |-> RsiColor(row.rsi_val),
     opinion |-> analysis.opinion,
     opinion_color |-> OpinionColor(analysis.opinion),
     details |-> analysis.details]

\* Mutant: only the empty frame refused.
TooShortEmptyOnly(df) == Len(df) = 0

\* line 173: df.empty or len(df) < 60
TooShort(df) == Len(df) = 0 \/ Len(df) < MIN_BARS

\* load_data_and_display(t, p) on the page state pg = [title, controls,
\* snack, shown], with what the provider answers: the frame df (its closes),
\* info, and fails: "fetch" (stock.history or stock.info raises), "render"
\* (building the content raises after the classifier ran) or "none".
\* Gives the page state after it and the classifier call it made (<<>>: none).
load_data_and_display(t, p, df, info, fails, pg) ==
    IF fails = "fetch"
    THEN [title |-> pg.title, controls |-> pg.controls, snack |-> LOAD_ERROR,
          shown |-> [title |-> pg.title, controls |-> pg.controls], call |-> <<>>]
    ELSE IF TooShort(df)
    THEN [title |-> pg.title, controls |-> pg.controls, snack |-> DATA_SHORT,
          shown |-> pg.shown, call |-> <<>>]
    ELSE LET row == LastRow(df)
             analysis == get_direction_analysis(row.current_price, row.ma20_val,
                                                row.ma60_val, row.rsi_val)
             content == Content(t, p, info, row, analysis)
         IN  IF fails = "render"
             THEN [title |-> pg.title, controls |-> pg.controls, snack |-> LOAD_ERROR,
                   shown |-> [title |-> pg.title, controls |-> pg.controls],
                   call |-> <<row>>]
             ELSE [title |-> pg.title, controls |-> <<content>>, snack |-> pg.snack,
                   shown |-> [title |-> pg.title, controls |-> <<content>>],
                   call |-> <<row>>]

\* (ticker_input.value or "AAPL").strip().upper(), on the inputs of the model
TickerInputs == {"", "tsla "}
NormalizeTicker(v) ==
    CASE v = "" -> "AAPL"
      [] v = "tsla " -> "TSLA"

SliderInputs == {SLIDER_MIN, DEFAULT_PERIOD_DAYS}
NoInfo == [longName |-> "", shortName |-> ""]
InfoInputs == {NoInfo, [longName |-> "Long Name Inc.", shortName |-> "Short"]}

\* Frames the provider may answer with: n closes, flat at base, rising or
\* falling by 1 a bar, or flat with a dip (-2, +2, +1) or a bump
\* (+2, -2, -1) in the last three bars; every close positive.  The lengths
\* are those around the MIN_BARS test, and the two scenario frames: 90
\* closes at 100, and the closes 1, 2, ..., 100.
BaseInputs == {1} \cup {100 + b : b \in 0..(MaxBase - 1)}
LenInputs == {0, MIN_BARS - 1, MIN_BARS}
ShapeInputs == {"flat", "up", "down", "dip_up", "bump_down"}
Frame(n, base, shape) ==
    [i \in 1..n |->
        CASE shape = "flat" -> base
          [] shape = "up" -> base + i - 1
          [] shape = "down" -> base + n - i
          [] shape = "dip_up" -> base + (IF i = n - 2 THEN -2 ELSE IF i = n THEN 1 ELSE 0)
          [] shape = "bump_down" -> base + (IF i = n - 2 THEN 2 ELSE IF i = n THEN -1 ELSE 0)]
ConstantScenario == Frame(90, 100, "flat")
IncreasingScenario == Frame(100, 1, "up")
FrameInputs ==
    {f \in {Frame(n, b, s) : n \in LenInputs, b \in BaseInputs, s \in ShapeInputs} :
        \A i \in 1..Len(f) : f[i] > 0}
    \cup {ConstantScenario, IncreasingScenario}

\* What the provider answers to one load: the retrieval raises; or it gives
\* a frame too short to analyse; or a frame and the info, and building the
\* content then raises or not.  (df and info are named only where the load
\* reads them.)
LoadInputs ==
    {[df |-> <<>>, info |-> NoInfo, fails |-> "fetch"]}
    \cup {[df |-> f, info |-> NoInfo, fails |-> "none"] :
            f \in {g \in FrameInputs : Len(g) < MIN_BARS}}
    \cup {[df |-> f, info |-> NoInfo, fails |-> "render"] :
            f \in {g \in FrameInputs : Len(g) >= MIN_BARS}}
    \cup {[df |-> f, info |-> i, fails |-> "none"] :
            f \in {g \in FrameInputs : Len(g) >= MIN_BARS}, i \in InfoInputs}

\* main() up to page.add: title, placeholder, the page sent to the client.
Init ==
    /\ page_title = "AAPL"
    /\ main_column = <<Placeholder>>
    /\ snack_bar = "none"
    /\ shown = [title |-> "AAPL", controls |-> <<Placeholder>>]
    /\ loaded = FALSE
    /\ last_load = NoLoad
    /\ last_call = <<>>
    /\ ClassifyIdle
    /\ IndicatorsIdle

Page == [title |-> page_title, controls |-> main_column, snack |-> snack_bar, shown |-> shown]

SetPage(new, in) ==
    /\ page_title' = new.title
    /\ main_column' = new.controls
    /\ snack_bar' = new.snack
    /\ shown' = new.shown
    /\ last_call' = new.call
    /\ last_load' = [df |-> in.df, fails |-> in.fails]

\* line 375: the initial load at the end of main()
InitialLoad ==
    /\ ~loaded
    /\ \E in \in LoadInputs :
          SetPage(load_data_and_display("AAPL", DEFAULT_PERIOD_DAYS,
                                        in.df, in.info, in.fails, Page), in)
    /\ loaded' = TRUE
    /\ UNCHANGED <<classifyVars, indicatorVars>>

\* lines 299-315: a click on the analyze button
on_analyze ==
    /\ loaded
    /\ \E v \in TickerInputs, p \in SliderInputs, in \in LoadInputs :
          LET t == NormalizeTicker(v)
              pg == [title |-> t, controls |-> <<Loading(t)>>, snack |-> snack_bar,
                     shown |-> [title |-> t, controls |-> <<Loading(t)>>]]
          IN  SetPage(load_data_and_display(t, p, in.df, in.info, in.fails, pg), in)
    /\ UNCHANGED <<loaded, classifyVars, indicatorVars>>

Next == InitialLoad \/ on_analyze

Spec == Init /\ [][Next]_vars

(***************************************************************************)
(* Properties.  Called: the classifier has run on the drawn arguments.     *)
(* Above(x, y): x > y as numbers (false when either is undefined).         *)
(***************************************************************************)
Called == result # NoResult
Defined(x) == x[2] > 0
Above(x, y) == Defined(x) /\ Defined(y) /\ x[1] * y[2] > y[1] * x[2]
AtLeast(x, n) == Defined(x) /\ x[1] >= n * x[2]
AtMost(x, n) == Defined(x) /\ x[1] <= n * x[2]

\* C1: with ma20 and rsi defined, the opinion is decided by aboveMA =
\* price > ma20, overbought = rsi >= 70, oversold = rsi <= 30 in the order:
\* aboveMA and not overbought -> uptrend; else not aboveMA and not oversold
\* -> downtrend; else overbought -> hold (overbought); else oversold ->
\* hold (oversold).  Both thresholds are inclusive.
C1_OpinionByPriority ==
    (Called /\ Defined(ma20) /\ Defined(rsi)) =>
        LET aboveMA == Above(price, ma20)
            overbought == AtLeast(rsi, 70)
            oversold == AtMost(rsi, 30)
        IN  result.opinion =
                CASE aboveMA /\ ~overbought -> UPTREND
                  [] ~aboveMA /\ ~oversold -> DOWNTREND
                  [] aboveMA /\ overbought -> HOLD_OVERBOUGHT
                  [] ~aboveMA /\ oversold -> HOLD_OVERSOLD

\* C1 witness: a call above ma20 with rsi exactly 70 gave hold (overbought).
C1_Witness ==
    /\ Called
    /\ Above(price, ma20)
    /\ rsi = Num(70)
    /\ result.opinion = HOLD_OVERBOUGHT

\* C2: when ma20 or rsi is undefined, the result is the bare hold opinion
\* with exactly one details entry, the insufficient-data rationale.
C2_ShortCircuit ==
    (Called /\ (IsNaN(ma20) \/ IsNaN(rsi))) =>
        /\ result.opinion = HOLD
        /\ result.details = <<<<INSUFFICIENT>>>>

\* C2 witness: a call with ma20 defined and rsi undefined was short-circuited.
C2_Witness ==
    /\ Called
    /\ Defined(ma20)
    /\ IsNaN(rsi)
    /\ Defined(price)
    /\ Len(result.details) = 1

\* C3: the opinion does not depend on ma60: a call that differs only in
\* ma60 (undefined included) gives the same opinion and the same details
\* except for the first entry.
C3_Ma60OnlyInFirstDetail ==
    Called =>
        \A m \in AverageInputs :
            LET other == get_direction_analysis(price, ma20, m, rsi)
            IN  /\ other.opinion = result.opinion
                /\ Len(other.details) = Len(result.details)
                /\ \A k \in 2..Len(result.details) : other.details[k] = result.details[k]

\* C3 witness: a call for which another ma60 changes the first rationale.
C3_Witness ==
    /\ Called
    /\ Defined(ma20)
    /\ Defined(rsi)
    /\ \E m \in AverageInputs :
          get_direction_analysis(price, ma20, m, rsi).details[1] # result.details[1]

\* C4: with ma20 and rsi defined, details has exactly two entries: the trend
\* rationale (uptrend iff price > ma20 and price > ma60, downtrend iff
\* price < ma20 and price < ma60, else ambiguous), then the RSI rationale
\* (overbought iff rsi >= 70, oversold iff rsi <= 30, else neutral).
C4_TwoDetails ==
    (Called /\ Defined(ma20) /\ Defined(rsi)) =>
        /\ Len(result.details) = 2
        /\ result.details[1] =
              <<IF Above(price, ma20) /\ Above(price, ma60) THEN TREND_UP
                ELSE IF Above(ma20, price) /\ Above(ma60, price) THEN TREND_DOWN
                ELSE TREND_AMBIGUOUS>>
        /\ Len(result.details[2]) = 2
        /\ result.details[2][1] =
              IF AtLeast(rsi, 70) THEN RSI_OVERBOUGHT
              ELSE IF AtMost(rsi, 30) THEN RSI_OVERSOLD
              ELSE RSI_NEUTRAL

\* C4 witness: a call with price equal to ma20 gave the ambiguous rationale
\* followed by an RSI rationale.
C4_Witness ==
    /\ Called
    /\ Defined(rsi)
    /\ price = ma20
    /\ Above(price, ma60)
    /\ result.details[1] = <<TREND_AMBIGUOUS>>
    /\ Len(result.details) = 2

\* C9: with ma20 and rsi defined one of the branches a-d assigns the
\* opinion, so the bare hold opinion is returned only by the short-circuit.
C9_NoFallback ==
    Called =>
        /\ (Defined(ma20) /\ Defined(rsi)) =>
              OpinionBranch(price, ma20, rsi) \in {"a", "b", "c", "d"}
        /\ result.opinion = HOLD <=> (IsNaN(ma20) \/ IsNaN(rsi))

\* C9 witness: a call above ma20 with rsi over 70 (branch a fails on
\* overbought) was given an opinion by branch c.
C9_Witness ==
    /\ Called
    /\ Above(price, ma20)
    /\ Above(rsi, Num(70))
    /\ OpinionBranch(price, ma20, rsi) = "c"
    /\ result.opinion # HOLD

Computed == out.fn # "none"
AllUndefined(col) == \A i \in 1..Len(col) : IsNaN(col[i])
SameLength == \A c \in 1..Len(out.values) : Len(out.values[c]) = Len(series)

\* C5 as stated: for a series of fewer than 2 closes every indicator output
\* has the length of the input and is undefined at every position (read for
\* the moving average and the Bollinger middle band with a window of at
\* least 2: a window of 1 is never short of observations).
C5_Original ==
    (Computed /\ Len(series) < 2) =>
        /\ SameLength
        /\ \A c \in 1..Len(out.values) :
              (c = 1 /\ out.fn \in {"rolling_mean", "calc_bollinger"} /\ out.param[1] < 2)
              \/ AllUndefined(out.values[c])

\* C5 as amended: for a series of fewer than 2 closes every indicator output
\* has the length of the input; the moving average and the Bollinger middle
\* band with a window of at least 2, calc_rsi, and the Bollinger upper and
\* lower bands are undefined at every position, whereas the three outputs
\* of calc_macd are 0 at the single position of a one-close series.
C5_ShortSeries ==
    (Computed /\ Len(series) < 2) =>
        /\ SameLength
        /\ (out.fn = "rolling_mean" /\ out.param[1] >= 2) => AllUndefined(out.values[1])
        /\ out.fn = "calc_rsi" => AllUndefined(out.values[1])
        /\ out.fn = "calc_bollinger" =>
              /\ out.param[1] >= 2 => AllUndefined(out.values[1])
              /\ AllUndefined(out.values[2])
              /\ AllUndefined(out.values[3])
        /\ out.fn = "calc_macd" =>
              \A c \in 1..3 : \A i \in 1..Len(series) : out.values[c][i] = Num(0)

\* C5 witness: calc_macd with its default spans was applied to one close
\* and gave a defined MACD line.
C5_Witness ==
    /\ Len(series) = 1
    /\ out.fn = "calc_macd"
    /\ out.param = DefaultSpans
    /\ Len(out.values[1]) = 1
    /\ Defined(out.values[1][1])

RECURSIVE ClosesSum(_, _, _)
ClosesSum(s, a, b) == IF b < a THEN 0 ELSE s[b] + ClosesSum(s, a, b - 1)

\* C8: the moving average and the Bollinger middle band with window w have
\* the length of the input; index i (counted from 1) is undefined exactly
\* when i < w and otherwise is the mean of the closes i-w+1..i; the upper
\* and lower bands are undefined wherever the middle band is.
C8_RollingMean ==
    (out.fn \in {"rolling_mean", "calc_bollinger"}) =>
        LET w == out.param[1]
            mid == out.values[1]
        IN  /\ SameLength
            /\ \A i \in 1..Len(series) :
                  /\ IsNaN(mid[i]) <=> i < w
                  /\ i >= w =>
                        /\ Defined(mid[i])
                        /\ mid[i][1] * w = ClosesSum(series, i - w + 1, i) * mid[i][2]
                  /\ (out.fn = "calc_bollinger" /\ IsNaN(mid[i])) =>
                        IsNaN(out.values[2][i]) /\ IsNaN(out.values[3][i])

\* C8 witness: Bollinger bands of window 3 on a longer series, undefined at
\* index 2 and defined at index 3.
C8_Witness ==
    /\ out.fn = "calc_bollinger"
    /\ out.param = <<3>>
    /\ Len(series) > 3
    /\ IsNaN(out.values[1][2])
    /\ IsNaN(out.values[2][2])
    /\ Defined(out.values[1][3])

Analysed(df) ==
    /\ loaded
    /\ last_load = [df |-> df, fails |-> "none"]

\* C6 as stated: after a load of 90 closes at 100, ma20 = ma60 = 100, the
\* RSI of the last bar is defined, the classifier is not short-circuited,
\* its trend rationale is the ambiguous one and its opinion is one of the
\* four that the RSI decides.
C6_ConstantSeries ==
    Analysed(ConstantScenario) =>
        /\ Len(last_call) = 1
        /\ last_call[1].ma20_val = Num(100)
        /\ last_call[1].ma60_val = Num(100)
        /\ Defined(last_call[1].rsi_val)
        /\ main_column[1].kind = "content"
        /\ main_column[1].details[1] = <<TREND_AMBIGUOUS>>
        /\ main_column[1].opinion \in {UPTREND, DOWNTREND, HOLD_OVERBOUGHT, HOLD_OVERSOLD}

\* C7 as stated: after a load of the closes 1..100, ma20 < ma60 < price at
\* the last bar, RSI is 100, and the opinion is uptrend when price > ma20
\* and RSI < 70 and hold (overbought) when RSI >= 70.
C7_Original ==
    Analysed(IncreasingScenario) =>
        LET row == last_call[1]
        IN  /\ Above(row.ma60_val, row.ma20_val)
            /\ Above(row.current_price, row.ma60_val)
            /\ row.rsi_val = Num(100)
            /\ (Above(row.current_price, row.ma20_val) /\ ~AtLeast(row.rsi_val, 70)) =>
                  main_column[1].opinion = UPTREND
            /\ AtLeast(row.rsi_val, 70) => main_column[1].opinion = HOLD_OVERBOUGHT

\* C7 as amended: after a load of the closes 1..100, ma60 < ma20 < price at
\* the last bar (70.5 < 90.5 < 100), RSI is 100, and the opinion is the one
\* the rule gives for RSI >= 70, hold (overbought).
C7_IncreasingSeries ==
    Analysed(IncreasingScenario) =>
        LET row == last_call[1]
        IN  /\ row.ma60_val = Frac(141, 2)
            /\ row.ma20_val = Frac(181, 2)
            /\ row.current_price = Num(100)
            /\ Above(row.ma20_val, row.ma60_val)
            /\ Above(row.current_price, row.ma20_val)
            /\ row.rsi_val = Num(100)
            /\ main_column[1].kind = "content"
            /\ main_column[1].opinion = HOLD_OVERBOUGHT
            /\ main_column[1].details[1] = <<TREND_UP>>

\* C7 witness: the closes 1..100 were loaded and the page shows hold
\* (overbought).
C7_Witness ==
    /\ Analysed(IncreasingScenario)
    /\ main_column[1].kind = "content"
    /\ main_column[1].opinion = HOLD_OVERBOUGHT

\* The load rule of C10: every load calls the classifier and shows a content column only for
\* a frame of at least 60 bars, and then passes ma20 and ma60 defined; for a
\* shorter (or empty) frame it shows the data-short notification, calls
\* nothing and leaves main_column as it found it: the placeholder in the
\* initial load, the loading indicator of on_analyze in a later one.
C10_Step ==
    LET df == last_load'.df
    IN  /\ last_call' # <<>> =>
              /\ Len(df) >= MIN_BARS
              /\ Defined(last_call'[1].ma20_val)
              /\ Defined(last_call'[1].ma60_val)
        /\ main_column'[1].kind = "content" =>
              /\ Len(df) >= MIN_BARS
              /\ last_call' # <<>>
        /\ (last_load'.fails = "none" /\ Len(df) < MIN_BARS) =>
              /\ snack_bar' = DATA_SHORT
              /\ last_call' = <<>>
              /\ main_column' = IF loaded THEN <<Loading(page_title')>> ELSE main_column
              /\ ~loaded => main_column' = <<Placeholder>>

\* C10: every step of the page satisfies the load rule above.
C10_LoadOnlyWithMinBars == [][C10_Step]_vars

\* C10 witness: a later analyze got 59 bars; the page is left showing the
\* loading indicator and the data-short notification.
C10_Witness ==
    /\ loaded
    /\ last_load.fails = "none"
    /\ Len(last_load.df) = MIN_BARS - 1
    /\ main_column = <<Loading(page_title)>>
    /\ snack_bar = DATA_SHORT

====
